---- MODULE Spec2Model ----
(***************************************************************************)
(* State-machine model of the Tetris engine of src/components/Tetris.jsx.  *)
(* The React state (board, currentPiece, position, gameOver, score) is the *)
(* program state; every event (timer tick, key press, spawn effect, reset  *)
(* button) is one atomic step: handler, re-render and effects together.    *)
(* Coordinates are 0-based as in the source; TLA+ sequences are 1-based,   *)
(* so board[y][x] of the source is board[y + 1][x + 1] here.               *)
(* Colours '#rrggbb' are kept as the integer value of their hex digits;    *)
(* 0 is the empty cell, as in the source.                                  *)
(***************************************************************************)
EXTENDS Integers, Sequences, FiniteSets

VARIABLES board, currentPiece, position, gameOver, score,
          lastOp, spawns, keys, resets, ticks, timerAge, sinceTick

vars == <<board, currentPiece, position, gameOver, score,
          lastOp, spawns, keys, resets, ticks, timerAge, sinceTick>>

game == <<board, currentPiece, position, gameOver, score>>

BOARD_WIDTH == 10

BOARD_HEIGHT == 20

\* Bounds of the exploration (bookkeeping counters, not program state).
MaxSpawns == 1

MaxKeys == 1

MaxResets == 1
\* Rows left free above the stack that the input-free game starts from.
FreeRows == 6

\* The 1000 ms of setInterval, in time steps of the model.
Period == 2

TETROMINOS ==
  [ I |-> [shape |-> << <<1, 1, 1, 1>> >>,             color |-> 61680],
    J |-> [shape |-> << <<1, 0, 0>>, <<1, 1, 1>> >>,   color |-> 240],
    L |-> [shape |-> << <<0, 0, 1>>, <<1, 1, 1>> >>,   color |-> 15769600],
    O |-> [shape |-> << <<1, 1>>, <<1, 1>> >>,         color |-> 15790080],
    S |-> [shape |-> << <<0, 1, 1>>, <<1, 1, 0>> >>,   color |-> 61440],
    T |-> [shape |-> << <<0, 1, 0>>, <<1, 1, 1>> >>,   color |-> 10486000],
    Z |-> [shape |-> << <<1, 1, 0>>, <<0, 1, 1>> >>,   color |-> 15728640] ]

\* Object.keys(TETROMINOS)
tetrominos == {"I", "J", "L", "O", "S", "T", "Z"}

\* JavaScript null for currentPiece (a record, so that it compares with pieces).
null == [shape |-> << >>, color |-> 0]

createBoard == [y \in 1..BOARD_HEIGHT |-> [x \in 1..BOARD_WIDTH |-> 0]]

\* The spawn row above the visible board.
spawnPosition_above == [x |-> (BOARD_WIDTH \div 2) - 1, y |-> -1]

\* The spawn row one lower.
spawnPosition_secondRow == [x |-> (BOARD_WIDTH \div 2) - 1, y |-> 1]

\* The spawn column without the "- 1".
spawnPosition_middle == [x |-> BOARD_WIDTH \div 2, y |-> 0]

spawnPosition == [x |-> (BOARD_WIDTH \div 2) - 1, y |-> 0]

\* The component state as one value, for the handlers written as functions.
Cur == [board |-> board, currentPiece |-> currentPiece, position |-> position,
        gameOver |-> gameOver, score |-> score]

\* b[y][x] of the source; a column outside the row reads undefined (falsy).
boardCell(b, y, x) ==
  IF x \in 0..(Len(b[y + 1]) - 1) THEN b[y + 1][x + 1] ELSE 0

\* isColliding without the right-wall test.
isColliding_noRightWall(b, piece, pos) ==
  \E y \in 0..(Len(piece.shape) - 1) :
    \E x \in 0..(Len(piece.shape[y + 1]) - 1) :
      /\ piece.shape[y + 1][x + 1] # 0
      /\ LET newX == pos.x + x
             newY == pos.y + y
         IN  \/ newX < 0
             \/ newY >= BOARD_HEIGHT
             \/ (newY >= 0 /\ boardCell(b, newY, newX) # 0)

isColliding(b, piece, pos) ==
  \E y \in 0..(Len(piece.shape) - 1) :
    \E x \in 0..(Len(piece.shape[y + 1]) - 1) :
      /\ piece.shape[y + 1][x + 1] # 0
      /\ LET newX == pos.x + x
             newY == pos.y + y
         IN  \/ newX < 0
             \/ newX >= BOARD_WIDTH
             \/ newY >= BOARD_HEIGHT
             \/ (newY >= 0 /\ boardCell(b, newY, newX) # 0)

\* writePiece with the row and column offsets of the mask swapped.
writePiece_swapped(b, piece, pos) ==
  [r \in 1..Len(b) |->
    [c \in 1..Len(b[r]) |->
      IF \E y \in 0..(Len(piece.shape) - 1) :
           \E x \in 0..(Len(piece.shape[y + 1]) - 1) :
             /\ piece.shape[y + 1][x + 1] # 0
             /\ pos.y + x >= 0
             /\ pos.y + x = r - 1
             /\ pos.x + y = c - 1
      THEN piece.color
      ELSE b[r][c]]]

\* newBoard of mergePieceToBoard: the piece written into a copy of the board.
writePiece(b, piece, pos) ==
  [r \in 1..Len(b) |->
    [c \in 1..Len(b[r]) |->
      IF \E y \in 0..(Len(piece.shape) - 1) :
           \E x \in 0..(Len(piece.shape[y + 1]) - 1) :
             /\ piece.shape[y + 1][x + 1] # 0
             /\ pos.y + y >= 0
             /\ pos.y + y = r - 1
             /\ pos.x + x = c - 1
      THEN piece.color
      ELSE b[r][c]]]

\* newBoard.reduce(...): indices (0-based) of the rows with no empty cell.
completedRows(b) ==
  {i \in 0..(Len(b) - 1) : \A c \in 1..Len(b[i + 1]) : b[i + 1][c] # 0}

RECURSIVE filterRows(_, _, _)
\* newBoard.filter((_, i) => !completedRows.includes(i)), from index i on.
filterRows(b, rows, i) ==
  IF i >= Len(b) THEN << >>
  ELSE IF i \in rows THEN filterRows(b, rows, i + 1)
       ELSE << b[i + 1] >> \o filterRows(b, rows, i + 1)

newRows(n) == [i \in 1..n |-> [x \in 1..BOARD_WIDTH |-> 0]]

\* clearRows removing only the topmost completed row.
clearRows_firstOnly(b, s) ==
  LET rows == completedRows(b)
      top  == {i \in rows : \A j \in rows : i <= j}
  IN  IF Cardinality(rows) # 0
      THEN [board |-> newRows(1) \o filterRows(b, top, 0),
            score |-> s + Cardinality(rows) * 100]
      ELSE [board |-> b, score |-> s]

\* clearRows with the new empty rows put below the kept rows.
clearRows_appendBelow(b, s) ==
  LET rows == completedRows(b)
  IN  IF Cardinality(rows) # 0
      THEN [board |-> filterRows(b, rows, 0) \o newRows(Cardinality(rows)),
            score |-> s + Cardinality(rows) * 100]
      ELSE [board |-> b, score |-> s]

clearRows(b, s) ==
  LET rows == completedRows(b)
  IN  IF Cardinality(rows) # 0
      THEN [board |-> newRows(Cardinality(rows)) \o filterRows(b, rows, 0),
            score |-> s + Cardinality(rows) * 100]
      ELSE [board |-> b, score |-> s]

\* mergePieceToBoard awarding 100 per clearing lock instead of per row.
mergePieceToBoard_flatBonus(s) ==
  IF s.currentPiece = null THEN s
  ELSE LET newBoard == writePiece(s.board, s.currentPiece, s.position)
           cleared  == clearRows(newBoard, s.score)
       IN  [s EXCEPT !.board = cleared.board,
                     !.currentPiece = null,
                     !.score = IF cleared.score # s.score
                               THEN s.score + 100 ELSE s.score]

mergePieceToBoard(s) ==
  IF s.currentPiece = null THEN s
  ELSE LET newBoard == writePiece(s.board, s.currentPiece, s.position)
           cleared  == clearRows(newBoard, s.score)
       IN  [s EXCEPT !.board = cleared.board,
                     !.currentPiece = null,
                     !.score = cleared.score]

\* moveDown that leaves a piece stuck at the top where it is, without ending
\* the game.
moveDown_noGameOver(s) ==
  IF s.currentPiece = null THEN s
  ELSE LET newPos == [s.position EXCEPT !.y = s.position.y + 1]
       IN  IF isColliding(s.board, s.currentPiece, newPos)
           THEN IF s.position.y < 1
                THEN s
                ELSE mergePieceToBoard(s)
           ELSE [s EXCEPT !.position = newPos]

\* moveDown that locks the piece as soon as it comes to rest, in the same
\* tick that moved it.
moveDown_eagerLock(s) ==
  IF s.currentPiece = null THEN s
  ELSE LET newPos == [s.position EXCEPT !.y = s.position.y + 1]
           below  == [s.position EXCEPT !.y = s.position.y + 2]
       IN  IF isColliding(s.board, s.currentPiece, newPos)
           THEN IF s.position.y < 1
                THEN [s EXCEPT !.gameOver = TRUE]
                ELSE mergePieceToBoard(s)
           ELSE IF isColliding(s.board, s.currentPiece, below)
                THEN mergePieceToBoard([s EXCEPT !.position = newPos])
                ELSE [s EXCEPT !.position = newPos]

\* moveDown with the game-over test off by one (y < 0 instead of y < 1).
moveDown_lockAtTop(s) ==
  IF s.currentPiece = null THEN s
  ELSE LET newPos == [s.position EXCEPT !.y = s.position.y + 1]
       IN  IF isColliding(s.board, s.currentPiece, newPos)
           THEN IF s.position.y < 0
                THEN [s EXCEPT !.gameOver = TRUE]
                ELSE mergePieceToBoard(s)
           ELSE [s EXCEPT !.position = newPos]

moveDown(s) ==
  IF s.currentPiece = null THEN s
  ELSE LET newPos == [s.position EXCEPT !.y = s.position.y + 1]
       IN  IF isColliding(s.board, s.currentPiece, newPos)
           THEN IF s.position.y < 1
                THEN [s EXCEPT !.gameOver = TRUE]
                ELSE mergePieceToBoard(s)
           ELSE [s EXCEPT !.position = newPos]

\* moveHorizontally that also refuses to move a piece that collides where
\* it is.
moveHorizontally_stuck(s, dir) ==
  IF s.currentPiece = null THEN s
  ELSE LET newPos == [s.position EXCEPT !.x = s.position.x + dir]
       IN  IF /\ ~isColliding(s.board, s.currentPiece, s.position)
              /\ ~isColliding(s.board, s.currentPiece, newPos)
           THEN [s EXCEPT !.position = newPos]
           ELSE s

\* moveHorizontally without the collision test.
moveHorizontally_unchecked(s, dir) ==
  IF s.currentPiece = null THEN s
  ELSE [s EXCEPT !.position = [s.position EXCEPT !.x = s.position.x + dir]]

moveHorizontally(s, dir) ==
  IF s.currentPiece = null THEN s
  ELSE LET newPos == [s.position EXCEPT !.x = s.position.x + dir]
       IN  IF ~isColliding(s.board, s.currentPiece, newPos)
           THEN [s EXCEPT !.position = newPos]
           ELSE s

\* shape[0].map((_, i) => shape.map(row => row[i]).reverse())
rotatedShape(shape) ==
  [i \in 1..Len(shape[1]) |->
    [j \in 1..Len(shape) |-> shape[Len(shape) + 1 - j][i]]]

\* rotatePiece without the collision test.
rotatePiece_unchecked(s) ==
  IF s.currentPiece = null THEN s
  ELSE [s EXCEPT !.currentPiece.shape = rotatedShape(s.currentPiece.shape)]

\* rotatePiece that tries one column to the right when the rotation collides.
rotatePiece_kickRight(s) ==
  IF s.currentPiece = null THEN s
  ELSE LET rotatedPiece == [s.currentPiece EXCEPT
                              !.shape = rotatedShape(s.currentPiece.shape)]
           kicked == [s.position EXCEPT !.x = s.position.x + 1]
       IN  IF ~isColliding(s.board, rotatedPiece, s.position)
           THEN [s EXCEPT !.currentPiece = rotatedPiece]
           ELSE IF ~isColliding(s.board, rotatedPiece, kicked)
                THEN [s EXCEPT !.currentPiece = rotatedPiece,
                               !.position = kicked]
                ELSE s

rotatePiece(s) ==
  IF s.currentPiece = null THEN s
  ELSE LET rotatedPiece == [s.currentPiece EXCEPT
                              !.shape = rotatedShape(s.currentPiece.shape)]
       IN  IF ~isColliding(s.board, rotatedPiece, s.position)
           THEN [s EXCEPT !.currentPiece = rotatedPiece]
           ELSE s

Keys == {"ArrowLeft", "ArrowRight", "ArrowDown", "ArrowUp", "Enter"}

\* handleKeyPress without the game-over test.
handleKeyPress_noGuard(s, key) ==
  CASE key = "ArrowLeft"  -> moveHorizontally(s, -1)
    [] key = "ArrowRight" -> moveHorizontally(s, 1)
    [] key = "ArrowDown"  -> moveDown(s)
    [] key = "ArrowUp"    -> rotatePiece(s)
    [] OTHER              -> s

handleKeyPress(s, key) ==
  IF s.gameOver THEN s
  ELSE CASE key = "ArrowLeft"  -> moveHorizontally(s, -1)
         [] key = "ArrowRight" -> moveHorizontally(s, 1)
         [] key = "ArrowDown"  -> moveDown(s)
         [] key = "ArrowUp"    -> rotatePiece(s)
         [] OTHER              -> s

\* The first effect: spawn when there is no piece; nothing when game over.
spawnEffect(s, name) ==
  IF s.gameOver THEN s
  ELSE IF s.currentPiece = null
       THEN [s EXCEPT !.currentPiece = TETROMINOS[name],
                      !.position = spawnPosition]
       ELSE s

\* The interval callback; the effect installs no interval when game over.
intervalTick(s) ==
  IF s.gameOver THEN s ELSE moveDown(s)

\* resetGame without setBoard(createBoard()).
resetGame_keepBoard(s) ==
  [board |-> s.board, currentPiece |-> null,
   position |-> [x |-> 0, y |-> 0], gameOver |-> FALSE, score |-> 0]

resetGame(s) ==
  [board |-> createBoard, currentPiece |-> null,
   position |-> [x |-> 0, y |-> 0], gameOver |-> FALSE, score |-> 0]

\* State after construction (the useState initial values).
constructed ==
  [board |-> createBoard, currentPiece |-> null,
   position |-> [x |-> 0, y |-> 0], gameOver |-> FALSE, score |-> 0]

\* displayBoard of renderBoard: the piece in play drawn over a copy of the
\* board (the same loop as in mergePieceToBoard).
renderBoard(s) ==
  IF s.currentPiece # null
  THEN writePiece(s.board, s.currentPiece, s.position)
  ELSE s.board

\* The timer exists only while the game is not over (effect, line 147).
intervalActive(s) == ~s.gameOver

\* The "New Game" button is rendered only while the game is over.
resetButtonShown(s) == s.gameOver

(***************************************************************************)
(* Mid-game starting points.  Each opening is a sequence of events played  *)
(* from the constructed state with the handlers above, so every starting   *)
(* state is a state the program reaches from construction.                 *)
(***************************************************************************)
RECURSIVE land(_)
\* Timer ticks until the piece in play locks or the game ends.
land(s) ==
  IF s.currentPiece = null \/ s.gameOver THEN s ELSE land(intervalTick(s))

step(s, e) ==
  CASE e.op = "spawn" -> spawnEffect(s, e.arg)
    [] e.op = "key"   -> handleKeyPress(s, e.arg)
    [] e.op = "land"  -> land(s)
    [] OTHER          -> s

RECURSIVE run(_, _)
run(s, events) ==
  IF events = << >> \/ s.gameOver THEN s
  ELSE run(step(s, Head(events)), Tail(events))

sp(name) == << [op |-> "spawn", arg |-> name] >>

ky(k, n) == [i \in 1..n |-> [op |-> "key", arg |-> k]]

ld == << [op |-> "land", arg |-> ""] >>

\* One piece dropped: spawn, rot rotations, dx moves (left if negative), fall.
drop(name, rot, dx) ==
  sp(name) \o ky("ArrowUp", rot)
           \o (IF dx < 0 THEN ky("ArrowLeft", -dx) ELSE ky("ArrowRight", dx))
           \o ld

RECURSIVE times(_, _)
times(events, n) == IF n = 0 THEN << >> ELSE events \o times(events, n - 1)

\* Nine O pieces stacked on the spawn columns (rows 2..19 of columns 4, 5)
\* and a tenth O spawned on top of them.
tower == times(drop("O", 0, 0), 9) \o sp("O")

\* Column 4 filled on rows 1..19, a vertical I locked at y = 1 on top.
chimney ==
  times(drop("I", 1, 0), 3) \o drop("I", 0, 0) \o drop("O", 0, 0)
    \o drop("I", 1, 0)

\* Rows 19 and 17 lack only column 9, row 18 lacks more; a vertical I is in
\* play above column 9.
twoRows ==
  times(drop("I", 0, -4), 3) \o drop("I", 0, 0) \o drop("I", 1, 4)
    \o drop("T", 2, 0) \o drop("I", 1, 3)
    \o sp("I") \o ky("ArrowUp", 1) \o ky("ArrowRight", 5)

\* One row already cleared (score 100); row 19 lacks columns 4..7 and a
\* horizontal I is in play above them.
secondClear ==
  drop("I", 0, -4) \o drop("I", 0, 0) \o drop("O", 0, 4)
    \o drop("I", 0, -4) \o sp("I")

\* Column 8 filled on rows 2..19 and a horizontal I locked at y = 1 on
\* columns 5..8, resting on column 8 only, with nothing under columns 5..7.
overhang ==
  times(drop("I", 1, 4), 4) \o drop("O", 0, 4) \o drop("I", 0, 1)

Openings == { << >>, tower, chimney, twoRows, secondClear, overhang }

Apply(s) ==
  /\ board' = s.board
  /\ currentPiece' = s.currentPiece
  /\ position' = s.position
  /\ gameOver' = s.gameOver
  /\ score' = s.score

InitFrom(openings) ==
  /\ \E o \in openings :
       LET s == run(constructed, o)
       IN  /\ board = s.board
           /\ currentPiece = s.currentPiece
           /\ position = s.position
           /\ gameOver = s.gameOver
           /\ score = s.score
  /\ lastOp = "init"
  /\ spawns = 0
  /\ keys = 0
  /\ resets = 0
  /\ ticks = 0
  /\ timerAge = 0
  /\ sinceTick = 0

Init == InitFrom(Openings)

\* useEffect, lines 146-153: getRandomTetromino draws any of the seven.
SpawnStep ==
  /\ ~gameOver
  /\ currentPiece = null
  /\ spawns < MaxSpawns
  /\ \E name \in tetrominos : Apply(spawnEffect(Cur, name))
  /\ lastOp' = "spawn"
  /\ spawns' = spawns + 1
  /\ ticks' = 0
  /\ UNCHANGED <<keys, resets>>

\* setInterval(moveDown, 1000) fires.  ticks counts the timer ticks that
\* found the piece now in play (or locked last) since its spawn.
TickStep ==
  /\ intervalActive(Cur)
  /\ Apply(moveDown(Cur))
  /\ lastOp' = "tick"
  /\ ticks' = IF currentPiece # null THEN ticks + 1 ELSE ticks
  /\ UNCHANGED <<spawns, keys, resets>>

\* A keydown event reaches handleKeyPress.
KeyStep ==
  /\ keys < MaxKeys
  /\ \E k \in Keys :
       /\ Apply(handleKeyPress(Cur, k))
       /\ lastOp' = k
  /\ keys' = keys + 1
  /\ UNCHANGED <<spawns, resets, ticks>>

\* The "New Game" button is clicked.
ResetStep ==
  /\ resetButtonShown(Cur)
  /\ resets < MaxResets
  /\ Apply(resetGame(Cur))
  /\ lastOp' = "reset"
  /\ resets' = resets + 1
  /\ UNCHANGED <<spawns, keys, ticks>>

(***************************************************************************)
(* Spec leaves time out: the timer may fire at any moment while it exists, *)
(* and the two clocks stay at 0.                                           *)
(***************************************************************************)
SpawnEffect == SpawnStep /\ UNCHANGED <<timerAge, sinceTick>>

IntervalTick == TickStep /\ UNCHANGED <<timerAge, sinceTick>>

KeyDown == KeyStep /\ UNCHANGED <<timerAge, sinceTick>>

ResetClick == ResetStep /\ UNCHANGED <<timerAge, sinceTick>>

Next == SpawnEffect \/ IntervalTick \/ KeyDown \/ ResetClick

Spec == Init /\ [][Next]_vars

(***************************************************************************)
(* SpecTimer adds time.  timerAge is the time since the effect of lines    *)
(* 146-157 last called setInterval, sinceTick the time since the last      *)
(* timer tick (or the spawn).  The effect depends on currentPiece,         *)
(* gameOver and moveDown, and moveDown is a new function whenever          *)
(* currentPiece, position, board or score changed (lines 73, 107, 122): a  *)
(* step that changes any of them clears the interval and sets a new one.   *)
(***************************************************************************)
EffectReruns ==
  <<currentPiece, gameOver, position, board, score>>'
    # <<currentPiece, gameOver, position, board, score>>

\* Time passes while a piece is in play and the interval has not yet fired.
Elapse ==
  /\ intervalActive(Cur)
  /\ currentPiece # null
  /\ timerAge < Period
  /\ timerAge' = timerAge + 1
  /\ sinceTick' = sinceTick + 1
  /\ lastOp' = "elapse"
  /\ UNCHANGED <<game, spawns, keys, resets, ticks>>

TimedSpawn == SpawnStep /\ timerAge' = 0 /\ sinceTick' = 0

TimedTick ==
  /\ timerAge = Period
  /\ TickStep
  /\ timerAge' = 0
  /\ sinceTick' = 0

TimedKey ==
  /\ KeyStep
  /\ timerAge' = IF EffectReruns THEN 0 ELSE timerAge
  /\ UNCHANGED sinceTick

TimedReset == ResetStep /\ timerAge' = 0 /\ sinceTick' = 0

TimerOpenings == { << >>, tower }

InitTimer == InitFrom(TimerOpenings)

NextTimer == TimedSpawn \/ Elapse \/ TimedTick \/ TimedKey \/ TimedReset

SpecTimer == InitTimer /\ [][NextTimer]_vars

(***************************************************************************)
(* Vocabulary of the properties, stated on sets of cells <<x, y>> and      *)
(* independently of the handlers above.                                    *)
(***************************************************************************)
Templates == {TETROMINOS[n] : n \in tetrominos}

\* Absolute <<x, y>> coordinates of the occupied cells of a placed piece.
PieceCells(piece, pos) ==
  { <<pos.x + c[2] - 1, pos.y + c[1] - 1>> :
      c \in { d \in (1..Len(piece.shape)) \X (1..4) :
                /\ d[2] <= Len(piece.shape[d[1]])
                /\ piece.shape[d[1]][d[2]] # 0 } }

\* Cell c = <<x, y>> is a filled cell of the board.
IsFilled(b, c) ==
  /\ c[1] \in 0..(BOARD_WIDTH - 1)
  /\ c[2] \in 0..(BOARD_HEIGHT - 1)
  /\ b[c[2] + 1][c[1] + 1] # 0

\* The placement leaves the walls or the floor, or covers a filled cell.
Blocked(b, piece, pos) ==
  \E c \in PieceCells(piece, pos) :
    \/ c[1] < 0
    \/ c[1] >= 10
    \/ c[2] >= 20
    \/ (c[2] >= 0 /\ IsFilled(b, c))

Below(pos) == [x |-> pos.x, y |-> pos.y + 1]

Beside(pos, dir) == [x |-> pos.x + dir, y |-> pos.y]

\* A gravity step (timer or soft drop) that finds the piece resting at y >= 1.
LockEvent ==
  /\ lastOp' \in {"tick", "ArrowDown"}
  /\ currentPiece # null
  /\ ~gameOver
  /\ Blocked(board, currentPiece, Below(position))
  /\ position.y >= 1

\* The board with the piece in play written into it, before row clearing.
Merged ==
  LET cells == PieceCells(currentPiece, position)
  IN  [r \in 1..20 |->
        [c \in 1..10 |->
          IF <<c - 1, r - 1>> \in cells
          THEN currentPiece.color
          ELSE board[r][c]]]

HasGap(row) == \E c \in 1..Len(row) : row[c] = 0

FullRows(b) == {r \in 1..Len(b) : ~HasGap(b[r])}

EmptyRows(k) == [i \in 1..k |-> [c \in 1..10 |-> 0]]

(***************************************************************************)
(* C1: whenever a piece is in play, none of its occupied cells with y >= 0 *)
(* coincides with a filled cell of the board, and none lies outside the    *)
(* columns 0..9.  The spawn effect places the piece without testing for a  *)
(* collision, so this fails right after a spawn onto a filled row 1.       *)
(***************************************************************************)
C1_NoOverlapInBounds ==
  currentPiece # null =>
    \A c \in PieceCells(currentPiece, position) :
      /\ c[1] >= 0
      /\ c[1] < 10
      /\ (c[2] >= 0 => ~IsFilled(board, c))

(***************************************************************************)
(* C2: a piece spawned at x = 4, y = 0 onto filled cells sets gameOver,    *)
(* and from then on nothing but a reset changes the board, the piece, its  *)
(* position or the score.  The code sets gameOver only in moveDown, so the *)
(* spawn leaves it false and the piece may still be moved aside.           *)
(***************************************************************************)
C2_SpawnCollisionEndsGame ==
  [][ /\ (lastOp' = "spawn" /\ Blocked(board', currentPiece', position'))
           => gameOver'
      /\ ( /\ currentPiece \in Templates
           /\ position = [x |-> 4, y |-> 0]
           /\ Blocked(board, currentPiece, position)
           /\ lastOp' # "reset" )
           => UNCHANGED <<board, currentPiece, position, score>> ]_vars

(***************************************************************************)
(* C3: while gameOver is true no timer tick and no spawn happens, a key    *)
(* press changes neither board, piece, position nor score and leaves       *)
(* gameOver true; only a reset ends the game-over state.                   *)
(***************************************************************************)
C3_GameOverFreezes ==
  [][ gameOver =>
        \/ lastOp' = "reset"
        \/ /\ lastOp' \in Keys
           /\ gameOver'
           /\ UNCHANGED <<board, currentPiece, position, score>> ]_vars

\* A left arrow pressed after the game ended, with room on the left.
C3_Witness ==
  /\ gameOver
  /\ lastOp = "ArrowLeft"
  /\ ~Blocked(board, currentPiece, Beside(position, -1))

(***************************************************************************)
(* C4: the board always has 20 rows of 10 cells and every occupied cell of *)
(* the piece in play lies in columns 0..9 and rows 0..19, so merging and   *)
(* rendering never index outside the board.                                *)
(***************************************************************************)
C4_InBounds ==
  /\ Len(board) = 20
  /\ \A r \in 1..Len(board) : Len(board[r]) = 10
  /\ \A r \in DOMAIN board : \A c \in DOMAIN board[r] :
       board[r][c] # 0 => (c - 1 \in 0..9 /\ r - 1 \in 0..19)
  /\ currentPiece # null =>
       \A c \in PieceCells(currentPiece, position) :
         c[1] \in 0..9 /\ c[2] \in 0..19

\* A piece that fell to the floor along the right wall.
C4_Witness ==
  /\ currentPiece # null
  /\ lastOp = "tick"
  /\ <<9, 19>> \in PieceCells(currentPiece, position)

(***************************************************************************)
(* C5: on a lock, if the board with the piece merged has k full rows, the  *)
(* new board has 20 rows of 10 cells: k empty rows on top, then the other  *)
(* rows of the merged board in their order; the score grows by 100 * k.    *)
(***************************************************************************)
C5_LineClear ==
  [][ LockEvent =>
        LET merged == Merged
            k == Cardinality(FullRows(merged))
        IN  /\ Len(board') = 20
            /\ \A r \in 1..Len(board') : Len(board'[r]) = 10
            /\ board' = EmptyRows(k) \o SelectSeq(merged, HasGap)
            /\ score' = score + 100 * k ]_vars

\* Rows 17 and 19 were cleared by one lock; the old row 18 is now row 19.
C5_Witness ==
  /\ lastOp = "tick"
  /\ currentPiece = null
  /\ score = 200
  /\ board[20][10] # 0
  /\ board[20][5] = 0

(***************************************************************************)
(* C6: the score is a natural number; no step but a reset lowers it, and   *)
(* it changes only on a lock that clears k >= 1 rows, then by 100 * k.     *)
(***************************************************************************)
C6_ScoreMonotone ==
  [][ /\ score \in Nat
      /\ score' \in Nat
      /\ lastOp' # "reset" =>
           /\ score' >= score
           /\ score' # score =>
                /\ LockEvent
                /\ Cardinality(FullRows(Merged)) >= 1
                /\ score' = score + 100 * Cardinality(FullRows(Merged)) ]_vars

\* A second row cleared after a first one: the score went 100, then 200.
C6_Witness ==
  /\ score = 200
  /\ resets = 0
  /\ board = createBoard

(***************************************************************************)
(* C7: a tick that finds the piece unable to move down while y < 1 sets    *)
(* gameOver and merges nothing: board, score, shape and position stay.     *)
(***************************************************************************)
C7_GameOverOnTick ==
  [][ ( /\ lastOp' = "tick"
        /\ currentPiece # null
        /\ ~gameOver
        /\ Blocked(board, currentPiece, Below(position))
        /\ position.y < 1 )
      => /\ gameOver'
         /\ UNCHANGED <<board, score, currentPiece, position>> ]_vars

\* The timer has just ended the game.
C7_Witness ==
  /\ gameOver
  /\ lastOp = "tick"
  /\ position.y = 0

(***************************************************************************)
(* C8: a lock leaves no piece in play and gameOver false; until the spawn  *)
(* no tick or key changes the game; the spawn happens only when no piece   *)
(* is in play and puts one of the seven templates at x = 4, y = 0.         *)
(***************************************************************************)
C8_LockThenSpawn ==
  [][ /\ LockEvent => (currentPiece' = null /\ ~gameOver')
      /\ (currentPiece = null /\ ~gameOver /\ lastOp' \in Keys \cup {"tick"})
           => UNCHANGED game
      /\ lastOp' = "spawn" =>
           /\ currentPiece = null
           /\ currentPiece' \in Templates
           /\ position' = [x |-> 4, y |-> 0]
           /\ UNCHANGED <<board, score, gameOver>> ]_vars

\* The piece spawned after a lock (the lock that brought the score to 200).
C8_Witness ==
  /\ lastOp = "spawn"
  /\ score = 200
  /\ resets = 0
  /\ currentPiece \in Templates

(***************************************************************************)
(* C9: a reset (possible only when the game is over) gives score 0,        *)
(* gameOver false, no piece and the all-empty board of construction; the   *)
(* spawn that follows puts a template piece at x = 4, y = 0 on it.         *)
(***************************************************************************)
C9_Reset ==
  [][ /\ lastOp' = "reset" =>
           /\ gameOver
           /\ score' = 0
           /\ ~gameOver'
           /\ currentPiece' = null
           /\ board' = EmptyRows(20)
           /\ board' = constructed.board
      /\ (lastOp = "reset" /\ lastOp' = "spawn") =>
           /\ currentPiece' \in Templates
           /\ position' = [x |-> 4, y |-> 0]
           /\ board' = EmptyRows(20)
           /\ score' = 0 ]_vars

\* The piece spawned right after a reset of a game that had a filled board.
C9_Witness ==
  /\ lastOp = "spawn"
  /\ resets = 1
  /\ board = EmptyRows(20)
  /\ currentPiece # null
  /\ position = [x |-> 4, y |-> 0]

(***************************************************************************)
(* C10: a left or right move shifts x by dir when the shifted placement is *)
(* free and otherwise leaves the position; y, shape, board, score and      *)
(* gameOver are unchanged; nothing changes when no piece is in play.       *)
(***************************************************************************)
C10_MoveHorizontal ==
  [][ lastOp' \in {"ArrowLeft", "ArrowRight"} =>
        LET dir == IF lastOp' = "ArrowLeft" THEN -1 ELSE 1
        IN  /\ IF /\ currentPiece # null
                  /\ ~gameOver
                  /\ ~Blocked(board, currentPiece, Beside(position, dir))
               THEN position' = [x |-> position.x + dir, y |-> position.y]
               ELSE position' = position
            /\ UNCHANGED <<board, currentPiece, score, gameOver>> ]_vars

\* A right arrow rejected at the right wall (the only key pressed so far).
C10_Witness ==
  /\ lastOp = "ArrowRight"
  /\ keys = 1
  /\ spawns = 0
  /\ currentPiece # null
  /\ ~gameOver
  /\ position.x = 9

\* R is the mask S turned a quarter clockwise: the cell in row r, column c
\* of S is the cell in row c, column (rows of S) + 1 - r of R.
IsClockwiseTurn(R, S) ==
  /\ Len(R) = Len(S[1])
  /\ \A i \in 1..Len(R) : Len(R[i]) = Len(S)
  /\ \A r \in 1..Len(S) : \A c \in 1..Len(S[r]) :
       R[c][Len(S) + 1 - r] = S[r][c]

\* The quarter turn of S, found among all masks of the swapped dimensions.
Turned(S) ==
  CHOOSE R \in [1..Len(S[1]) -> [1..Len(S) -> {0, 1}]] : IsClockwiseTurn(R, S)

(***************************************************************************)
(* C11: a rotation replaces the mask by its clockwise quarter turn (rows   *)
(* and columns swapped) exactly when the turned mask is free at the        *)
(* unchanged position, and otherwise leaves the piece as it is; position,  *)
(* board, score and gameOver are unchanged either way.                     *)
(***************************************************************************)
C11_Rotate ==
  [][ (lastOp' = "ArrowUp" /\ currentPiece # null /\ ~gameOver) =>
        /\ currentPiece'.color = currentPiece.color
        /\ LET R == Turned(currentPiece.shape)
           IN  IF ~Blocked(board, [shape |-> R, color |-> 0], position)
               THEN /\ currentPiece'.shape = R
                    /\ Len(currentPiece'.shape) = Len(currentPiece.shape[1])
                    /\ Len(currentPiece'.shape[1]) = Len(currentPiece.shape)
               ELSE currentPiece'.shape = currentPiece.shape
        /\ UNCHANGED <<position, board, score, gameOver>> ]_vars

\* An upright I at the right wall whose rotation was rejected (the only key
\* pressed so far).
C11_Witness ==
  /\ lastOp = "ArrowUp"
  /\ keys = 1
  /\ spawns = 0
  /\ ~gameOver
  /\ position.x = 9
  /\ Len(currentPiece.shape) = 4

(***************************************************************************)
(* C12: rotating an O piece leaves its mask the 2x2 full mask and leaves   *)
(* the board cells it occupies the same.                                   *)
(***************************************************************************)
C12_RotateO ==
  [][ (lastOp' = "ArrowUp" /\ currentPiece = TETROMINOS.O) =>
        /\ currentPiece'.shape = << <<1, 1>>, <<1, 1>> >>
        /\ PieceCells(currentPiece', position')
             = PieceCells(currentPiece, position) ]_vars

\* An O piece in play that has just been rotated.
C12_Witness ==
  /\ lastOp = "ArrowUp"
  /\ currentPiece = TETROMINOS.O
  /\ ~gameOver

\* What renderBoard shows in the current state.
Snapshot == renderBoard(Cur)

\* b shows the O colour on rows 18, 19 of columns 4, 5 and nothing else.
OBlockAtBottom(b) ==
  \A r \in 1..20 : \A c \in 1..10 :
    b[r][c] = IF r \in {19, 20} /\ c \in {5, 6}
              THEN TETROMINOS.O.color ELSE 0

\* No key was pressed, the piece spawned last has met n timer ticks, and
\* the screen shows four cells of the O colour and nothing else: an O
\* spawned on the empty board and left to the timer for n ticks.
OScenario(n) ==
  /\ keys = 0
  /\ ticks = n
  /\ LET shown == { c \in (1..20) \X (1..10) : Snapshot[c[1]][c[2]] # 0 }
     IN  /\ Cardinality(shown) = 4
         /\ \A c \in shown : Snapshot[c[1]][c[2]] = TETROMINOS.O.color

(***************************************************************************)
(* C13 as stated: an O spawned at (4, 0) on the empty board has, after     *)
(* exactly 18 ticks, merged into rows 18-19 of columns 4-5, with score 0   *)
(* and the block on screen.  The 18th tick only brings the piece to        *)
(* y = 18; it is the 19th tick that finds it blocked and merges it.        *)
(***************************************************************************)
C13_MergedAfter18 ==
  OScenario(18) =>
    /\ currentPiece = null
    /\ OBlockAtBottom(board)
    /\ score = 0
    /\ OBlockAtBottom(Snapshot)

(***************************************************************************)
(* C13 amended: after exactly 18 ticks the O is still in play at (4, 18),  *)
(* the board is still empty and the screen shows the block on rows 18-19,  *)
(* columns 4-5; the 19th tick merges the piece into those cells, the score *)
(* (0 at the start) is still 0 and the screen shows the same block.        *)
(***************************************************************************)
C13_RestsAfter18MergedAfter19 ==
  [][ (OScenario(18) /\ score = 0) =>
        /\ currentPiece = TETROMINOS.O
        /\ position = [x |-> 4, y |-> 18]
        /\ board = EmptyRows(20)
        /\ OBlockAtBottom(Snapshot)
        /\ lastOp' = "tick" =>
             /\ ticks' = 19
             /\ currentPiece' = null
             /\ OBlockAtBottom(board')
             /\ score' = 0
             /\ OBlockAtBottom(Snapshot') ]_vars

\* The O has merged on the 19th tick.
C13_Witness ==
  /\ OScenario(19)
  /\ score = 0
  /\ currentPiece = null
  /\ lastOp = "tick"

FilledCount(b) ==
  Cardinality({ c \in (1..Len(b)) \X (1..10) : b[c[1]][c[2]] # 0 })

(***************************************************************************)
(* C14: a lock merges the piece where it is: its occupied cells are four   *)
(* cells of the board, all empty before; before row clearing exactly they  *)
(* take the colour of the piece and every other cell keeps its value; the  *)
(* board after the lock is that merged board with its k full rows cleared, *)
(* so it has count_before + 4 - 10 * k filled cells.                       *)
(***************************************************************************)
C14_LockMerge ==
  [][ LockEvent =>
        LET cells  == PieceCells(currentPiece, position)
            merged == Merged
            k      == Cardinality(FullRows(merged))
        IN  /\ Cardinality(cells) = 4
            /\ cells \subseteq (0..9) \X (0..19)
            /\ \A c \in cells : board[c[2] + 1][c[1] + 1] = 0
            /\ k = 0 => board' = merged
            /\ \A r \in 1..20 : HasGap(merged[r]) =>
                 \E q \in 1..20 : board'[q] = merged[r]
            /\ \A c \in cells : HasGap(merged[c[2] + 1]) =>
                 \E q \in 1..20 :
                   /\ board'[q] = merged[c[2] + 1]
                   /\ board'[q][c[1] + 1] = currentPiece.color
            /\ FilledCount(board') = FilledCount(board) + 4 - 10 * k ]_vars

\* A piece has locked on the empty board: exactly four cells are filled.
C14_Witness ==
  /\ currentPiece = null
  /\ lastOp = "tick"
  /\ score = 0
  /\ FilledCount(board) = 4

(***************************************************************************)
(* C15: a tick that finds the piece free to move down changes y to y + 1   *)
(* and nothing else of the game; a tick without a piece in play changes    *)
(* nothing.                                                                *)
(***************************************************************************)
C15_GravityStep ==
  [][ lastOp' = "tick" =>
        /\ (currentPiece # null
              /\ ~Blocked(board, currentPiece, Below(position))) =>
             /\ position' = [x |-> position.x, y |-> position.y + 1]
             /\ UNCHANGED <<currentPiece, board, score, gameOver>>
        /\ currentPiece = null => UNCHANGED game ]_vars

\* The fifth tick has brought the piece to row 5.
C15_Witness ==
  /\ lastOp = "tick"
  /\ currentPiece # null
  /\ ticks = 5
  /\ position.y = 5

(***************************************************************************)
(* C16: every timer tick comes exactly one period after the previous one   *)
(* (or after the spawn), and a move or rotation does not restart the       *)
(* timer.  In the code an accepted move or rotation changes the state the  *)
(* effect depends on, so the interval is cleared and started again.        *)
(***************************************************************************)
C16_ConstantPeriod ==
  [][ /\ lastOp' = "tick" => sinceTick = Period
      /\ lastOp' \in {"ArrowLeft", "ArrowRight", "ArrowUp"}
           => timerAge' = timerAge ]_vars

C18_TopRowEmpty ==
  /\ currentPiece # null => position.y >= 0
  /\ \A c \in 1..10 : board[1][c] = 0

\* A piece in play at the spawn row above a board filled up to row 1, the
\* highest row a lock can fill.
C18_Witness ==
  /\ currentPiece # null
  /\ position.y = 0
  /\ spawns = 1
  /\ \E c \in 1..10 : board[2][c] # 0

\* The piece in play covers a filled cell of the board.
Overlaps ==
  /\ currentPiece # null
  /\ \E c \in PieceCells(currentPiece, position) : IsFilled(board, c)

(***************************************************************************)
(* C19: a piece at y >= 1 never covers a filled cell, so an overlap exists *)
(* only at the spawn row; from an overlapping state a horizontal move, a   *)
(* rotation or a tick is accepted exactly when the placement it asks for   *)
(* is free (a blocked tick at y = 0 ends the game).                        *)
(***************************************************************************)
C19_OverlapOnlyAtSpawnRow ==
  [][ /\ (currentPiece # null /\ position.y >= 1) => ~Overlaps
      /\ (currentPiece' # null /\ position'.y >= 1) => ~Overlaps'
      /\ (Overlaps /\ ~gameOver) =>
           /\ position.y = 0
           /\ lastOp' \in {"ArrowLeft", "ArrowRight"} =>
                LET to == Beside(position,
                                 IF lastOp' = "ArrowLeft" THEN -1 ELSE 1)
                IN  /\ ~Blocked(board, currentPiece, to) => position' = to
                    /\ Blocked(board, currentPiece, to) => UNCHANGED game
           /\ lastOp' = "ArrowUp" =>
                LET R == Turned(currentPiece.shape)
                IN  /\ position' = position
                    /\ IF ~Blocked(board, [shape |-> R, color |-> 0],
                                   position)
                       THEN currentPiece'.shape = R
                       ELSE UNCHANGED game
           /\ lastOp' = "tick" =>
                IF ~Blocked(board, currentPiece, Below(position))
                THEN /\ position' = Below(position)
                     /\ ~gameOver'
                     /\ ~Overlaps'
                ELSE gameOver' /\ position' = position ]_vars

\* An O spawned onto the filled cell (4, 1) has moved right, off the cell.
C19_Witness ==
  /\ lastOp = "ArrowRight"
  /\ keys = 1
  /\ currentPiece = TETROMINOS.O
  /\ position = [x |-> 5, y |-> 0]
  /\ board[2][5] # 0
  /\ ~Overlaps

(***************************************************************************)
(* The game without input: only the spawn effect and the timer act.  The   *)
(* number of pieces is not bounded; the game starts from a stack that the  *)
(* input-free game itself builds, leaving FreeRows rows above it.          *)
(***************************************************************************)
\* Pieces dropped without input: O's on the spawn columns, on top of one
\* horizontal I when the stack height is odd.
stack ==
  (IF (BOARD_HEIGHT - FreeRows) % 2 = 1 THEN drop("I", 0, 0) ELSE << >>)
    \o times(drop("O", 0, 0), (BOARD_HEIGHT - FreeRows) \div 2)

InitDrop == InitFrom({stack})

\* useEffect, lines 146-153, for any number of pieces.
DropSpawn ==
  /\ ~gameOver
  /\ currentPiece = null
  /\ \E name \in tetrominos : Apply(spawnEffect(Cur, name))
  /\ lastOp' = "spawn"
  /\ UNCHANGED <<spawns, keys, resets, ticks, timerAge, sinceTick>>

\* setInterval(moveDown, 1000) fires.
DropTick ==
  /\ intervalActive(Cur)
  /\ Apply(moveDown(Cur))
  /\ lastOp' = "tick"
  /\ UNCHANGED <<spawns, keys, resets, ticks, timerAge, sinceTick>>

NextDrop == DropSpawn \/ DropTick

\* The effect runs after every render that left no piece in play, and the
\* interval keeps firing while it is installed: neither can be enabled
\* forever without happening.
SpecDrop ==
  InitDrop /\ [][NextDrop]_vars /\ WF_vars(DropSpawn) /\ WF_vars(DropTick)

(***************************************************************************)
(* C20: with spawn and tick steps only and a timer that keeps firing, the  *)
(* score is 0 forever, columns 0-3 and 8-9 stay empty, and the game        *)
(* eventually is over, whatever pieces are drawn.                          *)
(***************************************************************************)
C20_NoInputEndsAtZero ==
  /\ [](/\ score = 0
        /\ \A r \in 1..BOARD_HEIGHT :
             \A c \in (1..4) \cup (9..10) : board[r][c] = 0)
  /\ <>gameOver

\* The game ended without input on a stack that holds pieces other than O
\* and I.
C20_Witness ==
  /\ gameOver
  /\ score = 0
  /\ lastOp = "tick"
  /\ \E r \in 1..BOARD_HEIGHT :
       board[r][7] \notin {0, TETROMINOS.O.color, TETROMINOS.I.color}

====
